---- MODULE Spec2Model ----
(***************************************************************************)
(* Model of src/src/structures/ApplicationCommand.js: the option           *)
(* transcoder (transformOption), the schema equality engine (equals,       *)
(* optionsEqual, _optionEquals) and the invocation encoder                 *)
(* (sendSlashCommand, sendContextMenu).                                    *)
(*                                                                         *)
(* JavaScript objects are records that hold exactly the keys whose value   *)
(* is not undefined.  A possibly-undefined value is a sequence of length   *)
(* 0 (undefined) or 1 (the value).  Values that may be a string or a       *)
(* number in the source (type tags, choice values, tokens, emitted         *)
(* values) are tagged records built by Str, Num, Bool, NaN and Undef.      *)
(***************************************************************************)
EXTENDS Integers, Sequences, FiniteSets, TLC

VARIABLES
    command,        \* `this`: the ApplicationCommand the method is called on
    message,        \* the `message` argument
    options,        \* the caller's `options` argument (an array object, mutated by shift)
    tokens,         \* what the caller's array held when the method was called
    method,         \* the method that was called
    pc,             \* position of the invocation
    i,              \* loop counter of sendSlashCommand
    subCommandCheck,\* local of sendSlashCommand
    subCommand,     \* local of sendSlashCommand, <<>> when undefined
    optionFormat,   \* local of sendSlashCommand: the entries pushed so far
    choice,         \* local of the loop body: the choice found for the last token
    result,         \* how the invocation ended
    posted,         \* the bodies handed to client.api.interactions.post
    xf,             \* transcoder run: input and outputs of transformOption
    eq,             \* equality run: operands and result of equals
    co,             \* concurrent calls: the arrays they were given and where each call is
    user            \* ClientUser calls: client.password, the account and the request in flight

vars == <<command, message, options, tokens, method, pc, i, subCommandCheck, subCommand,
          optionFormat, choice, result, posted, xf, eq, co, user>>

encVars == <<command, message, options, tokens, method, pc, i, subCommandCheck, subCommand,
             optionFormat, choice, result, posted>>

-----------------------------------------------------------------------------
(* JavaScript values *)

Str(x) == [t |-> "string", s |-> x, n |-> 0]
Num(k) == [t |-> "number", s |-> "", n |-> k]
Bool(b) == [t |-> "boolean", s |-> "", n |-> IF b THEN 1 ELSE 0]
NaN == [t |-> "number", s |-> "NaN", n |-> 0]
Undef == [t |-> "undefined", s |-> "", n |-> 0]

\* o[k] as a possibly-undefined value
Get(o, k) == IF k \in DOMAIN o THEN <<o[k]>> ELSE <<>>

\* the object {k: m}, without the key when m is undefined
Put(k, m) == IF m = <<>> THEN <<>> ELSE (k :> m[1])

\* a ?? b
Coalesce(a, b) == IF a # <<>> THEN a ELSE b

\* a?.length
LengthOf(a) == IF a = <<>> THEN <<>> ELSE <<Len(a[1])>>

\* arr[idx] with a 0-based index, undefined out of range
At(arr, idx) == IF idx + 1 \in 1..Len(arr) THEN <<arr[idx + 1]>> ELSE <<>>

\* ToBoolean
Truthy(v) ==
    CASE v.t = "string" -> v.s # ""
      [] v.t = "number" -> v.s # "NaN" /\ v.n # 0
      [] v.t = "boolean" -> v.n = 1
      [] OTHER -> FALSE

\* The strings the model uses and what Number() makes of each: the empty
\* string and digit strings are numbers, anything else is NaN.
Strings == {"", "0", "a"}

StringToNumber(s) ==
    CASE s = "" -> Num(0)
      [] s = "0" -> Num(0)
      [] OTHER -> NaN

\* Number(v)
ToNumber(v) ==
    CASE v.t = "string" -> StringToNumber(v.s)
      [] v.t = "number" -> v
      [] v.t = "boolean" -> Num(v.n)
      [] OTHER -> NaN

\* x == y (abstract equality) on strings, numbers and undefined
LooseEq(x, y) ==
    CASE x.t = "undefined" \/ y.t = "undefined" -> x.t = y.t
      [] x.t = y.t -> x.s # "NaN" /\ x = y
      [] OTHER -> LET a == ToNumber(x)
                      b == ToNumber(y)
                  IN  a.s # "NaN" /\ a = b

-----------------------------------------------------------------------------
(* util/Constants: the enums map a name to its code and a code to its name *)

OptionTypeNames ==
    <<"SUB_COMMAND", "SUB_COMMAND_GROUP", "STRING", "INTEGER", "BOOLEAN",
      "USER", "CHANNEL", "ROLE", "MENTIONABLE", "NUMBER", "ATTACHMENT">>

CommandTypeNames == <<"CHAT_INPUT", "USER", "MESSAGE">>

ChannelTypeNames ==
    <<"GUILD_TEXT", "DM", "GUILD_VOICE", "GROUP_DM", "GUILD_CATEGORY",
      "GUILD_NEWS", "GUILD_STORE">>

\* createEnum(keys)[v], the first key having code `first`
EnumLookup(names, first, v) ==
    CASE v.t = "string" /\ (\E k \in 1..Len(names) : names[k] = v.s) ->
            Num((CHOOSE k \in 1..Len(names) : names[k] = v.s) + first - 1)
      [] v.t = "number" /\ v.s = "" /\ (v.n - first + 1) \in 1..Len(names) ->
            Str(names[v.n - first + 1])
      [] OTHER -> Undef

ApplicationCommandOptionTypes(v) == EnumLookup(OptionTypeNames, 1, v)

ApplicationCommandTypes(v) == EnumLookup(CommandTypeNames, 1, v)

ChannelTypes(v) == EnumLookup(ChannelTypeNames, 0, v)

-----------------------------------------------------------------------------
(* ApplicationCommand.transformOption *)

\* lines 433-439 with the channel type names left as they are when sending
ChannelTypesValue_WireSpellingOnly(option, received) ==
    IF received
    THEN IF "channel_types" \in DOMAIN option
         THEN <<[k \in 1..Len(option.channel_types) |->
                    ChannelTypes(option.channel_types[k])]>>
         ELSE <<>>
    ELSE Get(option, "channel_types")

\* lines 433-439: the value stored under channelTypesKey
ChannelTypesValue(option, received) ==
    IF received
    THEN IF "channel_types" \in DOMAIN option
         THEN <<[k \in 1..Len(option.channel_types) |->
                    ChannelTypes(option.channel_types[k])]>>
         ELSE <<>>
    ELSE Coalesce(
            IF "channelTypes" \in DOMAIN option
            THEN <<[k \in 1..Len(option.channelTypes) |->
                       IF option.channelTypes[k].t = "string"
                       THEN ChannelTypes(option.channelTypes[k])
                       ELSE option.channelTypes[k]]>>
            ELSE <<>>,
            Get(option, "channel_types"))

RECURSIVE transformOption(_, _)
transformOption(option, received) ==
    LET stringType ==
            IF option.type.t = "string"
            THEN option.type
            ELSE ApplicationCommandOptionTypes(option.type)
        channelTypesKey == IF received THEN "channelTypes" ELSE "channel_types"
        minValueKey == IF received THEN "minValue" ELSE "min_value"
        maxValueKey == IF received THEN "maxValue" ELSE "max_value"
        required ==
            Coalesce(Get(option, "required"),
                     IF stringType \in {Str("SUB_COMMAND"), Str("SUB_COMMAND_GROUP")}
                     THEN <<>>
                     ELSE <<FALSE>>)
        nested ==
            IF "options" \in DOMAIN option
            THEN <<[k \in 1..Len(option.options) |->
                        transformOption(option.options[k], received)]>>
            ELSE <<>>
    IN  [type |-> IF option.type.t = "number" /\ ~received
                  THEN option.type
                  ELSE ApplicationCommandOptionTypes(option.type)]
        @@ Put("name", Get(option, "name"))
        @@ Put("description", Get(option, "description"))
        @@ Put("required", required)
        @@ Put("autocomplete", Get(option, "autocomplete"))
        @@ Put("choices", Get(option, "choices"))
        @@ Put("options", nested)
        @@ Put(channelTypesKey, ChannelTypesValue(option, received))
        @@ Put(minValueKey, Coalesce(Get(option, "minValue"), Get(option, "min_value")))
        @@ Put(maxValueKey, Coalesce(Get(option, "maxValue"), Get(option, "max_value")))

-----------------------------------------------------------------------------
(* new ApplicationCommand(client, data): the constructor and _patch *)

_patch(data) ==
    Put("name", Get(data, "name"))
    @@ Put("description", Get(data, "description"))
    @@ [options |-> IF "options" \in DOMAIN data
                    THEN [k \in 1..Len(data.options) |->
                             transformOption(data.options[k], TRUE)]
                    ELSE <<>>]
    @@ Put("defaultPermission", Get(data, "default_permission"))
    @@ Put("version", Get(data, "version"))

ApplicationCommand(data) ==
    [id |-> data.id,
     applicationId |-> data.application_id,
     type |-> ApplicationCommandTypes(data.type)]
    @@ _patch(data)

-----------------------------------------------------------------------------
(* ApplicationCommand.equals, optionsEqual and _optionEquals *)

\* new Map(list.map((x) => [x.name, x])).get(name): the last entry of that name
MapGet(list, name) ==
    LET hits == {k \in 1..Len(list) : list[k].name = name}
    IN  IF hits = {} THEN <<>>
        ELSE <<list[CHOOSE k \in hits : \A h \in hits : h <= k]>>

\* lines 339-359: the choices of `existing` against those of `option`
ChoicesEqual(existing, option, enforceOptionOrder) ==
    IF enforceOptionOrder
    THEN \A k \in 1..Len(existing.choices) :
            /\ existing.choices[k].name = option.choices[k].name
            /\ existing.choices[k].value = option.choices[k].value
    ELSE \A k \in 1..Len(existing.choices) :
            LET foundChoice == MapGet(option.choices, existing.choices[k].name)
            IN  foundChoice # <<>> /\ foundChoice[1].value = existing.choices[k].value

\* lines 361-368 with each channel type looked for at its own position only
ChannelTypesIncluded_SamePosition(existing, option) ==
    LET given == Coalesce(Get(option, "channelTypes"), Get(option, "channel_types"))[1]
        newTypes == [k \in 1..Len(given) |->
                        IF given[k].t = "number" THEN ChannelTypes(given[k]) ELSE given[k]]
    IN  \A k \in 1..Len(existing.channelTypes) :
            k <= Len(newTypes) /\ newTypes[k] = existing.channelTypes[k]

\* lines 361-368: every channel type of `existing` is among those of `option`
ChannelTypesIncluded(existing, option) ==
    LET given == Coalesce(Get(option, "channelTypes"), Get(option, "channel_types"))[1]
        newTypes == [k \in 1..Len(given) |->
                        IF given[k].t = "number" THEN ChannelTypes(given[k]) ELSE given[k]]
    IN  \A k \in 1..Len(existing.channelTypes) :
            \E n \in 1..Len(newTypes) : newTypes[n] = existing.channelTypes[k]

\* lines 316-337: the fields whose mismatch makes two options unequal at once
OptionFieldsDiffer(existing, option) ==
    LET optionType ==
            IF option.type.t = "string"
            THEN option.type
            ELSE ApplicationCommandOptionTypes(option.type)
    IN  \/ Get(option, "name") # Get(existing, "name")
        \/ optionType # existing.type
        \/ Get(option, "description") # Get(existing, "description")
        \/ Get(option, "autocomplete") # Get(existing, "autocomplete")
        \/ Coalesce(Get(option, "required"),
                    IF optionType \in {Str("SUB_COMMAND"), Str("SUB_COMMAND_GROUP")}
                    THEN <<>>
                    ELSE <<FALSE>>) # Get(existing, "required")
        \/ LengthOf(Get(option, "choices")) # LengthOf(Get(existing, "choices"))
        \/ LengthOf(Get(option, "options")) # LengthOf(Get(existing, "options"))
        \/ LengthOf(Coalesce(Get(option, "channelTypes"), Get(option, "channel_types")))
             # LengthOf(Get(existing, "channelTypes"))
        \/ Coalesce(Get(option, "minValue"), Get(option, "min_value"))
             # Get(existing, "minValue")
        \/ Coalesce(Get(option, "maxValue"), Get(option, "max_value"))
             # Get(existing, "maxValue")

RECURSIVE optionsEqual(_, _, _)
RECURSIVE _optionEquals(_, _, _)

\* optionsEqual with the operands of the call of line 299 exchanged
optionsEqual_OperandsExchanged(existing, opts, enforceOptionOrder) ==
    IF Len(existing) # Len(opts) THEN FALSE
    ELSE IF enforceOptionOrder
    THEN \A k \in 1..Len(existing) :
            _optionEquals(existing[k], opts[k], enforceOptionOrder)
    ELSE \A k \in 1..Len(existing) :
            LET foundOption == MapGet(opts, existing[k].name)
            IN  foundOption # <<>> /\ _optionEquals(foundOption[1], existing[k], FALSE)

\* lines 288-302
optionsEqual(existing, opts, enforceOptionOrder) ==
    IF Len(existing) # Len(opts) THEN FALSE
    ELSE IF enforceOptionOrder
    THEN \A k \in 1..Len(existing) :
            _optionEquals(existing[k], opts[k], enforceOptionOrder)
    ELSE \A k \in 1..Len(existing) :
            LET foundOption == MapGet(opts, existing[k].name)
            IN  foundOption # <<>> /\ _optionEquals(existing[k], foundOption[1], FALSE)

_optionEquals(existing, option, enforceOptionOrder) ==
    IF OptionFieldsDiffer(existing, option) THEN FALSE
    ELSE IF "choices" \in DOMAIN existing
            /\ ~ChoicesEqual(existing, option, enforceOptionOrder) THEN FALSE
    ELSE IF "channelTypes" \in DOMAIN existing
            /\ ~ChannelTypesIncluded(existing, option) THEN FALSE
    ELSE IF "options" \in DOMAIN existing
    THEN optionsEqual(existing.options, option.options, enforceOptionOrder)
    ELSE TRUE

\* lines 252-264: the top-level fields whose mismatch makes two commands unequal
CommandFieldsDiffer(this, cmd) ==
    LET commandType ==
            IF "type" \notin DOMAIN cmd THEN Undef
            ELSE IF cmd.type.t = "string" THEN cmd.type
            ELSE ApplicationCommandTypes(cmd.type)
    IN  \/ Get(cmd, "name") # Get(this, "name")
        \/ "description" \in DOMAIN cmd /\ Get(cmd, "description") # Get(this, "description")
        \/ "version" \in DOMAIN cmd /\ Get(cmd, "version") # Get(this, "version")
        \/ "autocomplete" \in DOMAIN cmd
             /\ Get(cmd, "autocomplete") # Get(this, "autocomplete")
        \/ Truthy(commandType) /\ commandType # this.type
        \/ Coalesce(LengthOf(Get(cmd, "options")), <<0>>)
             # Coalesce(LengthOf(Get(this, "options")), <<0>>)
        \/ Coalesce(Coalesce(Get(cmd, "defaultPermission"), Get(cmd, "default_permission")),
                    <<TRUE>>) # Get(this, "defaultPermission")

equals(this, cmd, enforceOptionOrder) ==
    IF "id" \in DOMAIN cmd /\ cmd.id # "" /\ this.id # cmd.id THEN FALSE
    ELSE IF CommandFieldsDiffer(this, cmd) THEN FALSE
    ELSE IF "options" \in DOMAIN cmd
    THEN optionsEqual(this.options, cmd.options, enforceOptionOrder)
    ELSE TRUE

-----------------------------------------------------------------------------
(* ApplicationCommand.sendSlashCommand: helpers of the loop body *)

\* arr.find(pred), hits being the indices where pred holds: the first hit,
\* <<>> when there is none
First(arr, hits) ==
    IF hits = {} THEN <<>>
    ELSE <<arr[CHOOSE k \in hits : \A h \in hits : k <= h]>>

\* choices.find((c) => c.name == value) || choices.find((c) => c.value == value)
FindChoice(choices, value) ==
    Coalesce(
        First(choices, {k \in 1..Len(choices) : LooseEq(Str(choices[k].name), value)}),
        First(choices, {k \in 1..Len(choices) : LooseEq(choices[k].value, value)}))

\* Coerce parsing the token of a NUMBER option as well
Coerce_NumberParsed(type, value) ==
    IF type \in {Str("INTEGER"), Str("NUMBER")} THEN ToNumber(value)
    ELSE IF type = Str("BOOLEAN") THEN Bool(Truthy(value))
    ELSE value

\* type == 'INTEGER' ? Number(value) : type == 'BOOLEAN' ? Boolean(value) : value
Coerce(type, value) ==
    IF type = Str("INTEGER") THEN ToNumber(value)
    ELSE IF type = Str("BOOLEAN") THEN Bool(Truthy(value))
    ELSE value

\* choice?.value || (coerced token)
EntryValue(found, type, value) ==
    IF found # <<>> /\ Truthy(found[1].value)
    THEN found[1].value
    ELSE Coerce(type, value)

\* the object pushed to optionFormat for the option `opt`
Entry(opt, found, value) ==
    [type |-> ApplicationCommandOptionTypes(opt.type),
     name |-> opt.name,
     value |-> EntryValue(found, opt.type, value)]

\* option.choices && option.choices.length > 0
HasChoices(opt) == "choices" \in DOMAIN opt /\ Len(opt.choices) > 0

\* One pass of the loop body for a token paired with the top-level option
\* this.options[i]: what is thrown, the choice found, what is pushed.
TopLevelBody(opt, value) ==
    LET found == IF HasChoices(opt) THEN FindChoice(opt.choices, value) ELSE <<>>
    IN  IF HasChoices(opt) /\ found = <<>>
        THEN [throw |-> "Error", choice |-> <<>>, push |-> <<>>]
        ELSE [throw |-> "", choice |-> found, push |-> <<Entry(opt, found, value)>>]

\* One pass of the loop body in the subcommand branch, i being the index of
\* the token after the shift.
SubCommandBody(sub, idx, value) ==
    IF ~Truthy(value)
    THEN [throw |-> "", choice |-> <<>>, push |-> <<>>]
    ELSE IF "options" \notin DOMAIN sub
    THEN \* subCommand.options[i] of undefined
         [throw |-> "TypeError", choice |-> <<>>, push |-> <<>>]
    ELSE LET opt == sub.options[idx + 1]
             found == IF HasChoices(opt) THEN FindChoice(opt.choices, value) ELSE <<>>
         IN  IF HasChoices(opt) /\ found = <<>>
             THEN [throw |-> "Error", choice |-> <<>>, push |-> <<>>]
             ELSE [throw |-> "", choice |-> found, push |-> <<Entry(opt, found, value)>>]

\* LoopBody without the typeof check on the token
LoopBody_NoTypeCheck(cmd, check, sub, idx, value) ==
    IF ~check /\ At(cmd.options, idx) = <<>>
    THEN [throw |-> "", choice |-> <<>>, push |-> <<>>]
    ELSE IF check /\ "options" \in DOMAIN sub[1] /\ At(sub[1].options, idx) = <<>>
    THEN [throw |-> "", choice |-> <<>>, push |-> <<>>]
    ELSE IF ~check
    THEN TopLevelBody(cmd.options[idx + 1], value)
    ELSE SubCommandBody(sub[1], idx, value)

\* The whole loop body for options[i]
LoopBody(cmd, check, sub, idx, value) ==
    IF value.t # "string"
    THEN [throw |-> "TypeError", choice |-> <<>>, push |-> <<>>]
    ELSE IF ~check /\ At(cmd.options, idx) = <<>>
    THEN [throw |-> "", choice |-> <<>>, push |-> <<>>]
    ELSE IF check /\ "options" \in DOMAIN sub[1] /\ At(sub[1].options, idx) = <<>>
    THEN [throw |-> "", choice |-> <<>>, push |-> <<>>]
    ELSE IF ~check
    THEN TopLevelBody(cmd.options[idx + 1], value)
    ELSE SubCommandBody(sub[1], idx, value)

\* RequiredMissing without the check scoped to the subcommand
RequiredMissing_TopLevelOnly(cmd, check, sub, idx) ==
    /\ ~check
    /\ At(cmd.options, idx) # <<>>
    /\ Get(At(cmd.options, idx)[1], "required") = <<TRUE>>

\* this.options[i]?.required, resp. subCommand?.options && subCommand?.options[i]?.required
RequiredMissing(cmd, check, sub, idx) ==
    LET scoped == IF ~check THEN <<cmd.options>>
                  ELSE IF sub = <<>> THEN <<>>
                  ELSE Get(sub[1], "options")
    IN  /\ scoped # <<>>
        /\ At(scoped[1], idx) # <<>>
        /\ Get(At(scoped[1], idx)[1], "required") = <<TRUE>>

\* option_: the wrapper node shares optionFormat with the loop
OptionList(check, sub, entries) ==
    IF check
    THEN <<[type |-> ApplicationCommandOptionTypes(sub[1].type),
            name |-> sub[1].name,
            options |-> entries]>>
    ELSE entries

\* The interaction body, `data` being what differs between the two methods
Body(cmd, msg, data) ==
    [type |-> 2,
     application_id |-> cmd.applicationId,
     guild_id |-> msg.guildId,
     channel_id |-> msg.channelId,
     session_id |-> "session",
     data |-> [version |-> Get(cmd, "version"),
               id |-> cmd.id,
               name |-> cmd.name,
               type |-> ApplicationCommandTypes(cmd.type)] @@ data]

SlashBody(cmd, msg, check, sub, entries) ==
    Body(cmd, msg, [options |-> OptionList(check, sub, entries)])

\* ApplicationCommandTypes[this.type] == 1 ? message.author.id : message.id
TargetId(cmd, msg) ==
    IF LooseEq(ApplicationCommandTypes(cmd.type), Num(1))
    THEN msg.author.id
    ELSE msg.id

\* ContextBody with an option list left in the data block
ContextBody_WithOptions(cmd, msg) ==
    Body(cmd, msg, [target_id |-> TargetId(cmd, msg), options |-> <<>>])

ContextBody(cmd, msg) == Body(cmd, msg, [target_id |-> TargetId(cmd, msg)])

-----------------------------------------------------------------------------
(* Inputs: the commands, messages and token arrays the methods are run on *)

MaxOpts == 2
MaxTokens == 3

SeqsUpTo(S, n) == UNION {[1..k -> S] : k \in 0..n}

Choice(name, value) == [name |-> name, value |-> value]

\* the token "a" is the name of the second choice and the value of the first
PrecedenceChoices == <<Choice("one", Str("a")), Choice("a", Str("two"))>>

\* the token "0" is no name and is the value of the choice
ValueChoices == <<Choice("five", Str("0"))>>

\* choice values that are falsy
FalsyChoices == <<Choice("zero", Num(0)), Choice("a", Str(""))>>

\* wire leaf options, still without a name
LeafShapes ==
    {[type |-> Num(3), required |-> TRUE],
     [type |-> Num(4), required |-> FALSE],
     [type |-> Num(5), choices |-> <<>>],
     [type |-> Num(10)],
     [type |-> Num(3), choices |-> PrecedenceChoices],
     [type |-> Num(3), required |-> FALSE, choices |-> ValueChoices],
     [type |-> Num(4), required |-> TRUE, choices |-> FalsyChoices]}

OptionNames == <<"p", "q", "r", "s">>

SubNames == <<"a", "0">>

\* the k-th option of a list is named OptionNames[k]
Named(shapes) ==
    [k \in 1..Len(shapes) |->
        shapes[k] @@ [name |-> OptionNames[k], description |-> "d"]]

WireLeafLists == {Named(shapes) : shapes \in SeqsUpTo(LeafShapes, MaxOpts)}

\* the nested lists of a subcommand: absent, or a list of leaves
SubCommandNested == {<<>>} \cup {<<l>> : l \in WireLeafLists}

\* the nested lists of a subcommand group: subcommands
GroupNested ==
    {<<Named(shapes)>> : shapes \in SeqsUpTo({[type |-> Num(1)]}, MaxOpts)}

SubNode(type, name, nested) ==
    [type |-> Num(type), name |-> name, description |-> "d"] @@ Put("options", nested)

\* Two subcommand nodes named SubNames: the one at `varied` has the given
\* type and nested list, the other is a subcommand with one required string.
SubList(varied, type, nested) ==
    [k \in 1..Len(SubNames) |->
        IF k = varied
        THEN SubNode(type, SubNames[k], nested)
        ELSE SubNode(1, SubNames[k], <<Named(<<[type |-> Num(3), required |-> TRUE]>>)>>)]

WireSubLists ==
    UNION {{SubList(v, 1, n) : n \in SubCommandNested}
           \cup {SubList(v, 2, n) : n \in GroupNested} : v \in 1..Len(SubNames)}

WireCommand(type, opts) ==
    [id |-> "c1", application_id |-> "app", type |-> Num(type), name |-> "cmd",
     description |-> "d", version |-> "v1", default_permission |-> TRUE]
    @@ Put("options", opts)

WireCommands ==
    {WireCommand(1, <<l>>) : l \in WireLeafLists \cup WireSubLists}
    \cup {WireCommand(2, <<>>), WireCommand(3, <<>>)}

Messages ==
    {[id |-> "m1", author |-> [id |-> "u1"], guildId |-> "g1", channelId |-> "ch1"]}

TokenValues == {Str(s) : s \in Strings} \cup {Num(0)}

\* the `options` argument: an array of values, or something that is no array
Array(items) == [array |-> TRUE, items |-> items]
NotArray == [array |-> FALSE, items |-> <<>>]

TokenArrays == {Array(t) : t \in SeqsUpTo(TokenValues, MaxTokens)} \cup {NotArray}

NoRun == [pc |-> "off"]

-----------------------------------------------------------------------------
(* The invocation encoder as a state machine *)

Init ==
    /\ \E data \in WireCommands : command = ApplicationCommand(data)
    /\ message \in Messages
    /\ options \in TokenArrays
    /\ tokens = options
    /\ method = "none"
    /\ pc = "idle"
    /\ i = 0
    /\ subCommandCheck = FALSE
    /\ subCommand = <<>>
    /\ optionFormat = <<>>
    /\ choice = <<>>
    /\ result = "none"
    /\ posted = <<>>
    /\ xf = NoRun
    /\ eq = NoRun
    /\ co = NoRun
    /\ user = NoRun

Finish(r) ==
    /\ pc' = "done"
    /\ result' = r

\* command.sendSlashCommand(message, options) is called
CallSlash ==
    /\ pc = "idle"
    /\ pc' = "slash"
    /\ method' = "sendSlashCommand"
    /\ UNCHANGED <<command, message, options, tokens, i, subCommandCheck, subCommand,
                   optionFormat, choice, result, posted, xf, eq, co, user>>

\* SlashCheck without the gate on the command's type
SlashCheck_NoGate ==
    /\ pc = "slash"
    /\ IF ~options.array THEN Finish("TypeError")
       ELSE pc' = "select" /\ UNCHANGED result
    /\ i' = 0
    /\ optionFormat' = <<>>
    /\ UNCHANGED <<command, message, options, tokens, method, subCommandCheck, subCommand,
                   choice, posted, xf, eq, co, user>>

\* lines 458-465: the argument checks and the gate on the command's type
SlashCheck ==
    /\ pc = "slash"
    /\ IF ~options.array THEN Finish("TypeError")
       ELSE IF command.type # Str("CHAT_INPUT") THEN Finish("false")
       ELSE pc' = "select" /\ UNCHANGED result
    /\ i' = 0
    /\ optionFormat' = <<>>
    /\ UNCHANGED <<command, message, options, tokens, method, subCommandCheck, subCommand,
                   choice, posted, xf, eq, co, user>>

\* this.options.some((option) => ['SUB_COMMAND', 'SUB_COMMAND_GROUP'].includes(option.type))
SubCommandCheck(cmd) ==
    \E k \in 1..Len(cmd.options) :
        cmd.options[k].type \in {Str("SUB_COMMAND"), Str("SUB_COMMAND_GROUP")}

\* FindSubCommand taking the first top-level option whatever the token
FindSubCommand_First(cmd, items) == At(cmd.options, 0)

\* this.options.find((option) => option.name == options[0])
FindSubCommand(cmd, items) ==
    LET first == IF At(items, 0) = <<>> THEN Undef ELSE items[1]
    IN  First(cmd.options,
              {k \in 1..Len(cmd.options) : LooseEq(Str(cmd.options[k].name), first)})

\* options.shift()
Shift(arr) == [arr EXCEPT !.items = IF Len(@) = 0 THEN @ ELSE Tail(@)]

\* lines 467-481: the subcommand is looked up and its token removed
SlashSelect ==
    /\ pc = "select"
    /\ subCommandCheck' = SubCommandCheck(command)
    /\ IF SubCommandCheck(command)
       THEN /\ subCommand' = FindSubCommand(command, options.items)
            /\ options' = Shift(options)
            /\ IF FindSubCommand(command, options.items) = <<>>
               THEN Finish("TypeError")   \* subCommand.type of undefined
               ELSE pc' = "loop" /\ UNCHANGED result
       ELSE /\ pc' = "loop"
            /\ UNCHANGED <<subCommand, options, result>>
    /\ UNCHANGED <<command, message, tokens, method, i, optionFormat, choice, posted, xf, eq, co, user>>

\* lines 482-550: one iteration of the loop
SlashLoop ==
    /\ pc = "loop"
    /\ i < Len(options.items)
    /\ LET body == LoopBody(command, subCommandCheck, subCommand, i, options.items[i + 1])
       IN  /\ choice' = body.choice
           /\ optionFormat' = optionFormat \o body.push
           /\ IF body.throw # ""
              THEN Finish(body.throw) /\ UNCHANGED i
              ELSE i' = i + 1 /\ UNCHANGED <<pc, result>>
    /\ UNCHANGED <<command, message, options, tokens, method, subCommandCheck, subCommand,
                   posted, xf, eq, co, user>>

\* lines 551-558: the check for a missing required value
SlashRequired ==
    /\ pc = "loop"
    /\ ~(i < Len(options.items))
    /\ IF RequiredMissing(command, subCommandCheck, subCommand, i)
       THEN Finish("Error")
       ELSE pc' = "post" /\ UNCHANGED result
    /\ UNCHANGED <<command, message, options, tokens, method, i, subCommandCheck, subCommand,
                   optionFormat, choice, posted, xf, eq, co, user>>

\* lines 559-575: the request is handed to the REST layer
SlashPost ==
    /\ pc = "post"
    /\ posted' = Append(posted,
                        SlashBody(command, message, subCommandCheck, subCommand, optionFormat))
    /\ pc' = "await"
    /\ UNCHANGED <<command, message, options, tokens, method, i, subCommandCheck, subCommand,
                   optionFormat, choice, result, xf, eq, co, user>>

\* command.sendContextMenu(message) is called
CallContext ==
    /\ pc = "idle"
    /\ pc' = "context"
    /\ method' = "sendContextMenu"
    /\ UNCHANGED <<command, message, options, tokens, i, subCommandCheck, subCommand,
                   optionFormat, choice, result, posted, xf, eq, co, user>>

\* lines 590-592: the gate on the command's type
ContextCheck ==
    /\ pc = "context"
    /\ IF command.type = Str("CHAT_INPUT")
       THEN Finish("false")
       ELSE pc' = "contextPost" /\ UNCHANGED result
    /\ UNCHANGED <<command, message, options, tokens, method, i, subCommandCheck, subCommand,
                   optionFormat, choice, posted, xf, eq, co, user>>

\* lines 593-612
ContextPost ==
    /\ pc = "contextPost"
    /\ posted' = Append(posted, ContextBody(command, message))
    /\ pc' = "await"
    /\ UNCHANGED <<command, message, options, tokens, method, i, subCommandCheck, subCommand,
                   optionFormat, choice, result, xf, eq, co, user>>

\* the awaited request resolves: return true
PostResolve ==
    /\ pc = "await"
    /\ Finish("true")
    /\ UNCHANGED <<command, message, options, tokens, method, i, subCommandCheck, subCommand,
                   optionFormat, choice, posted, xf, eq, co, user>>

\* the awaited request rejects: the REST layer's error reaches the caller
PostReject ==
    /\ pc = "await"
    /\ Finish("rejected")
    /\ UNCHANGED <<command, message, options, tokens, method, i, subCommandCheck, subCommand,
                   optionFormat, choice, posted, xf, eq, co, user>>

Next ==
    \/ CallSlash
    \/ SlashCheck
    \/ SlashSelect
    \/ SlashLoop
    \/ SlashRequired
    \/ SlashPost
    \/ CallContext
    \/ ContextCheck
    \/ ContextPost
    \/ PostResolve
    \/ PostReject

Spec == Init /\ [][Next]_vars

-----------------------------------------------------------------------------
(* Inputs of the equality engine: pairs of commands *)

MaxEqOpts == 2

Reverse(s) == [k \in 1..Len(s) |-> s[Len(s) + 1 - k]]

EqChoices == <<Choice("one", Str("a")), Choice("two", Num(0))>>

EqChannels == <<Num(0), Num(2)>>

EqLeaf(type, name) == [type |-> Num(type), name |-> name, description |-> "d"]

EqChoiceOption(choices) == EqLeaf(3, "p") @@ [required |-> TRUE, choices |-> choices]

EqRangeOption == EqLeaf(4, "q") @@ [min_value |-> 0, max_value |-> 5]

EqChannelOption(types) == EqLeaf(7, "r") @@ [channel_types |-> types]

EqSubOption(nested) == EqLeaf(1, "s") @@ [options |-> nested]

\* options in wire form; two of the same name differ only in an inner order
EqOptionPool ==
    {EqChoiceOption(EqChoices), EqChoiceOption(Reverse(EqChoices)),
     EqChannelOption(EqChannels), EqChannelOption(Reverse(EqChannels)),
     EqSubOption(<<EqChoiceOption(EqChoices), EqRangeOption>>),
     EqSubOption(<<EqRangeOption, EqChoiceOption(EqChoices)>>)}

UniqueNames(list) ==
    \A a, b \in 1..Len(list) : a # b => list[a].name # list[b].name

EqOptionLists == {l \in SeqsUpTo(EqOptionPool, MaxEqOpts) : UniqueNames(l)}

\* the top-level fields of a wire command, with the optional ones left out in turn
EqTop(keys) ==
    [k \in {"id", "application_id", "type", "name"} \cup keys |->
        CASE k = "id" -> "c1"
          [] k = "application_id" -> "app"
          [] k = "type" -> Num(1)
          [] k = "name" -> "cmd"
          [] k = "description" -> "d"
          [] k = "version" -> "v1"
          [] k = "default_permission" -> TRUE]

EqTops ==
    {EqTop({"description", "version", "default_permission"}),
     [EqTop({"description", "version", "default_permission"})
        EXCEPT !.default_permission = FALSE],
     EqTop({"description", "version"}),
     EqTop({"version", "default_permission"}),
     EqTop({"description", "default_permission"})}

EqWire(top, opts) == top @@ [options |-> opts]

-----------------------------------------------------------------------------
(* The equality engine as a state machine: one call of equals *)

Idle ==
    /\ command = ApplicationCommand(WireCommand(1, <<>>))
    /\ message \in Messages
    /\ options = NotArray
    /\ tokens = NotArray
    /\ method = "none"
    /\ pc = "off"
    /\ i = 0
    /\ subCommandCheck = FALSE
    /\ subCommand = <<>>
    /\ optionFormat = <<>>
    /\ choice = <<>>
    /\ result = "none"
    /\ posted = <<>>

\* `this` is an instance; the candidate is an instance or wire data, and the
\* two differ in their options or in their top-level fields
InitEq ==
    /\ Idle
    /\ xf = NoRun
    /\ co = NoRun
    /\ user = NoRun
    /\ \E top \in EqTops, opts \in EqOptionLists, otherTop \in EqTops,
          otherOpts \in EqOptionLists, wire \in BOOLEAN, enforceOptionOrder \in BOOLEAN :
            /\ top = otherTop \/ opts = otherOpts
            /\ eq = [pc |-> "ready",
                     this |-> ApplicationCommand(EqWire(top, opts)),
                     command |-> IF wire
                                 THEN EqWire(otherTop, otherOpts)
                                 ELSE ApplicationCommand(EqWire(otherTop, otherOpts)),
                     enforceOptionOrder |-> enforceOptionOrder]

Equals ==
    /\ eq.pc = "ready"
    /\ eq' = [pc |-> "done",
              this |-> eq.this,
              command |-> eq.command,
              enforceOptionOrder |-> eq.enforceOptionOrder,
              result |-> equals(eq.this, eq.command, eq.enforceOptionOrder)]
    /\ UNCHANGED <<encVars, xf, co, user>>

NextEq == Equals

SpecEq == InitEq /\ [][NextEq]_vars

-----------------------------------------------------------------------------
(* Inputs of the transcoder: options in wire form *)

MaxXfOpts == 1

XfRequired == {<<>>, <<TRUE>>, <<FALSE>>}

\* the optional fields a leaf option may carry besides `required`
XfExtras ==
    {<<>>,
     [choices |-> EqChoices],
     [channel_types |-> EqChannels],
     [min_value |-> 0],
     [min_value |-> 0, max_value |-> 5],
     [autocomplete |-> TRUE]}

XfLeaves ==
    {[type |-> Num(t), name |-> "p", description |-> "d"]
        @@ Put("required", r) @@ x :
            t \in {3, 4, 7}, r \in XfRequired, x \in XfExtras}

XfNested == {<<>>} \cup {<<Named(l)>> : l \in SeqsUpTo(XfLeaves, MaxXfOpts)}

XfSubCommands ==
    {[type |-> Num(1), name |-> "s", description |-> "d"] @@ Put("options", n) :
        n \in XfNested}

XfGroups ==
    {[type |-> Num(2), name |-> "g", description |-> "d"]} \cup
    {[type |-> Num(2), name |-> "g", description |-> "d", options |-> <<sub>>] :
        sub \in XfSubCommands}

XfOptions == XfLeaves \cup XfSubCommands \cup XfGroups

-----------------------------------------------------------------------------
(* The transcoder as a state machine: toModel, then toWire of its result *)

InitXf ==
    /\ Idle
    /\ eq = NoRun
    /\ co = NoRun
    /\ user = NoRun
    /\ \E w \in XfOptions : xf = [pc |-> "ready", w |-> w]

\* transformOption(w, true), as _patch calls it on received data
ToModel ==
    /\ xf.pc = "ready"
    /\ xf' = [pc |-> "model", w |-> xf.w, m |-> transformOption(xf.w, TRUE)]
    /\ UNCHANGED <<encVars, eq, co, user>>

\* transformOption(m, false), as done before sending
ToWire ==
    /\ xf.pc = "model"
    /\ xf' = [pc |-> "wire", w |-> xf.w, m |-> xf.m,
              back |-> transformOption(xf.m, FALSE)]
    /\ UNCHANGED <<encVars, eq, co, user>>

NextXf ==
    \/ ToModel
    \/ ToWire

SpecXf == InitXf /\ [][NextXf]_vars

-----------------------------------------------------------------------------
(* A call from its entry to its first await, which JavaScript runs without
   interruption: the same statements as the steps above, as one function *)

\* lines 482-550: the loop from index idx on, `entries` being optionFormat
RECURSIVE Walk(_, _, _, _, _, _)
Walk(cmd, check, sub, items, idx, entries) ==
    IF ~(idx < Len(items)) THEN [throw |-> "", entries |-> entries]
    ELSE LET body == LoopBody(cmd, check, sub, idx, items[idx + 1])
         IN  IF body.throw # ""
             THEN [throw |-> body.throw, entries |-> entries \o body.push]
             ELSE Walk(cmd, check, sub, items, idx + 1, entries \o body.push)

\* how a run ended, what it posted, what it left in the caller's array and
\* whether it got to allocate optionFormat
Ran(r, bodies, arr, fresh) ==
    [result |-> r, posted |-> bodies, options |-> arr, fresh |-> fresh]

\* lines 458-559 of sendSlashCommand; the result "await" is a posted request
SlashRun(cmd, msg, arr) ==
    IF ~arr.array THEN Ran("TypeError", <<>>, arr, FALSE)
    ELSE IF cmd.type # Str("CHAT_INPUT") THEN Ran("false", <<>>, arr, FALSE)
    ELSE LET check == SubCommandCheck(cmd)
             sub == IF check THEN FindSubCommand(cmd, arr.items) ELSE <<>>
             rest == IF check THEN Shift(arr) ELSE arr
         IN  IF check /\ sub = <<>> THEN Ran("TypeError", <<>>, rest, TRUE)
             ELSE LET walk == Walk(cmd, check, sub, rest.items, 0, <<>>)
                  IN  IF walk.throw # "" THEN Ran(walk.throw, <<>>, rest, TRUE)
                      ELSE IF RequiredMissing(cmd, check, sub, Len(rest.items))
                      THEN Ran("Error", <<>>, rest, TRUE)
                      ELSE Ran("await",
                               <<SlashBody(cmd, msg, check, sub, walk.entries)>>,
                               rest, TRUE)

\* lines 590-593 of sendContextMenu
ContextRun(cmd, msg, arr) ==
    IF cmd.type = Str("CHAT_INPUT") THEN Ran("false", <<>>, arr, FALSE)
    ELSE Ran("await", <<ContextBody(cmd, msg)>>, arr, FALSE)

Run(call, msg, arr) ==
    IF call.method = "sendSlashCommand"
    THEN SlashRun(call.command, msg, arr)
    ELSE ContextRun(call.command, msg, arr)

-----------------------------------------------------------------------------
(* Concurrent calls: each runs to its await in one step, and the awaited
   requests settle in any order *)

MaxCalls == 2
MaxCoTokens == 2

\* a command with subcommands, a command with one leaf option, a USER command
CoCommands ==
    {ApplicationCommand(WireCommand(1, <<SubList(1, 1, <<Named(<<[type |-> Num(3)]>>)>>)>>)),
     ApplicationCommand(WireCommand(1, <<Named(<<[type |-> Num(3)]>>)>>)),
     ApplicationCommand(WireCommand(2, <<>>))}

CoArrays == {Array(t) : t \in SeqsUpTo({Str("a"), Str("0")}, MaxCoTokens)}

\* a call that was made and has not run yet: `array` names the array object
\* it was given
CoCalls ==
    [method : {"sendSlashCommand", "sendContextMenu"},
     command : CoCommands,
     array : 1..MaxCalls,
     pc : {"idle"},
     result : {"none"},
     posted : {<<>>},
     list : {0}]

InitCo ==
    /\ Idle
    /\ xf = NoRun
    /\ eq = NoRun
    /\ user = NoRun
    /\ \E arrays \in [1..MaxCalls -> CoArrays], calls \in [1..MaxCalls -> CoCalls] :
          co = [pc |-> "on", given |-> arrays, arrays |-> arrays,
                allocated |-> 0, calls |-> calls]

\* call k runs from its entry to its await, or to its return or throw
CoStart(k) ==
    /\ co.pc = "on"
    /\ co.calls[k].pc = "idle"
    /\ LET call == co.calls[k]
           run == Run(call, message, co.arrays[call.array])
       IN  co' = [co EXCEPT
                    !.arrays[call.array] = run.options,
                    !.allocated = IF run.fresh THEN @ + 1 ELSE @,
                    !.calls[k] =
                        [call EXCEPT
                            !.pc = IF run.result = "await" THEN "await" ELSE "done",
                            !.result = IF run.result = "await" THEN "none" ELSE run.result,
                            !.posted = run.posted,
                            !.list = IF run.fresh THEN co.allocated + 1 ELSE 0]]
    /\ UNCHANGED <<encVars, xf, eq, user>>

\* the request of call k resolves: return true
CoResolve(k) ==
    /\ co.pc = "on"
    /\ co.calls[k].pc = "await"
    /\ co' = [co EXCEPT !.calls[k].pc = "done", !.calls[k].result = "true"]
    /\ UNCHANGED <<encVars, xf, eq, user>>

\* the request of call k rejects
CoReject(k) ==
    /\ co.pc = "on"
    /\ co.calls[k].pc = "await"
    /\ co' = [co EXCEPT !.calls[k].pc = "done", !.calls[k].result = "rejected"]
    /\ UNCHANGED <<encVars, xf, eq, user>>

NextCo ==
    \E k \in 1..MaxCalls :
        \/ CoStart(k)
        \/ CoResolve(k)
        \/ CoReject(k)

SpecCo == InitCo /\ [][NextCo]_vars

-----------------------------------------------------------------------------
(* One call of transformOption on an option that spells its channel filter
   and its bounds in the model's way, in the wire's way, or in both *)

\* the ways of giving a field: not at all, under the wire spelling, under
\* the model spelling, under both with different values
Spellings == {"absent", "wire", "model", "both"}

Spelled(how, wireKey, wireValue, modelKey, modelValue) ==
    (IF how \in {"wire", "both"} THEN (wireKey :> wireValue) ELSE <<>>)
    @@ (IF how \in {"model", "both"} THEN (modelKey :> modelValue) ELSE <<>>)

DualOption(channels, min, max) ==
    [type |-> Num(7), name |-> "p", description |-> "d"]
    @@ Spelled(channels, "channel_types", <<Num(2)>>, "channelTypes", <<Str("GUILD_TEXT")>>)
    @@ Spelled(min, "min_value", 0, "minValue", 1)
    @@ Spelled(max, "max_value", 5, "maxValue", 4)

InitDual ==
    /\ Idle
    /\ eq = NoRun
    /\ co = NoRun
    /\ user = NoRun
    /\ \E channels \in Spellings, min \in Spellings, max \in Spellings,
          received \in BOOLEAN :
            xf = [pc |-> "given",
                  option |-> DualOption(channels, min, max),
                  received |-> received]

Transform ==
    /\ xf.pc = "given"
    /\ xf' = [pc |-> "returned", option |-> xf.option, received |-> xf.received,
              out |-> transformOption(xf.option, xf.received)]
    /\ UNCHANGED <<encVars, eq, co, user>>

NextDual == Transform

SpecDual == InitDual /\ [][NextDual]_vars

-----------------------------------------------------------------------------
(* What the claims about the encoder speak of *)

IsSubType(type) == type \in {Str("SUB_COMMAND"), Str("SUB_COMMAND_GROUP")}

Slash == method = "sendSlashCommand"
Context == method = "sendContextMenu"
ChatInput == command.type = Str("CHAT_INPUT")

\* the top-level options are subcommands or subcommand groups
Routed ==
    /\ ChatInput
    /\ command.options # <<>>
    /\ \A k \in 1..Len(command.options) : IsSubType(command.options[k].type)

\* the top-level options are leaves
Flat ==
    /\ ChatInput
    /\ \A k \in 1..Len(command.options) : ~IsSubType(command.options[k].type)

\* the caller passed a sequence of strings
StringTokens ==
    /\ tokens.array
    /\ \A k \in 1..Len(tokens.items) : tokens.items[k].t = "string"

Failed == pc = "done" /\ result \in {"TypeError", "Error"}
NotApplicable == pc = "done" /\ result = "false"
Succeeded == pc = "done" /\ result = "true"

\* the top-level options the first token names
NamedByFirst ==
    IF tokens.array /\ Len(tokens.items) > 0 /\ tokens.items[1].t = "string"
    THEN {k \in 1..Len(command.options) : command.options[k].name = tokens.items[1].s}
    ELSE {}

Selected == command.options[CHOOSE k \in NamedByFirst : TRUE]

\* the tokens that are left for the walk, and the list they are walked against
Remaining ==
    IF Routed /\ tokens.items # <<>> THEN Tail(tokens.items) ELSE tokens.items

Scoped ==
    IF Flat THEN <<command.options>>
    ELSE IF Routed /\ NamedByFirst # {} THEN Get(Selected, "options")
    ELSE <<>>

\* the position of the option called `name` in `list`, 0 when there is none
PositionOf(name, list) ==
    IF \E k \in 1..Len(list) : list[k].name = name
    THEN CHOOSE k \in 1..Len(list) : list[k].name = name
    ELSE 0

\* Every entry carries the type code and name of an option of `scoped` at a
\* position that has a token, and the entries are in increasing position.
BuiltFrom(entries, scoped, rest) ==
    IF scoped = <<>> THEN entries = <<>>
    ELSE /\ \A m \in 1..Len(entries) :
               LET p == PositionOf(entries[m].name, scoped[1])
               IN  /\ p \in 1..Len(rest)
                   /\ entries[m].type = ApplicationCommandOptionTypes(scoped[1][p].type)
         /\ \A m \in 1..Len(entries) - 1 :
               PositionOf(entries[m].name, scoped[1])
                 < PositionOf(entries[m + 1].name, scoped[1])

\* the option list of the request that was posted
Emitted == posted[1].data.options

-----------------------------------------------------------------------------
(* C1: a first token that names a top-level subcommand (group) makes a
   request whose option list is one node with that option's type code and
   name, holding the entries built from the remaining tokens against its
   nested options; with no first token, or one that names no top-level
   option, the call fails and nothing is posted. *)
C1_SubcommandRouting ==
    Slash /\ Routed /\ StringTokens =>
        /\ posted # <<>> =>
             /\ NamedByFirst # {}
             /\ Len(Emitted) = 1
             /\ Emitted[1].type = ApplicationCommandOptionTypes(Selected.type)
             /\ Emitted[1].name = Selected.name
             /\ BuiltFrom(Emitted[1].options, Get(Selected, "options"), Remaining)
        /\ NamedByFirst = {} =>
             /\ posted = <<>>
             /\ pc \in {"slash", "select", "done"}
             /\ pc = "done" => Failed

C1_Witness ==
    /\ Slash /\ Routed /\ StringTokens
    /\ Succeeded
    /\ Selected.name = "0"
    /\ Len(Emitted[1].options) >= 1

(* C2: sendContextMenu posts the author's id as target_id for a USER
   command and the message's id for a MESSAGE command. *)
C2_ContextTarget ==
    Context /\ posted # <<>> =>
        posted[1].data.target_id =
            IF command.type = Str("USER") THEN message.author.id ELSE message.id

\* the option at the next unconsumed position of the scoped list is required
NextRequired ==
    /\ Scoped # <<>>
    /\ Len(Remaining) < Len(Scoped[1])
    /\ Get(Scoped[1][Len(Remaining) + 1], "required") = <<TRUE>>

\* the command has exactly one top-level option, a required leaf
OneRequired ==
    /\ Flat
    /\ Len(command.options) = 1
    /\ Get(command.options[1], "required") = <<TRUE>>

(* C3: when the option at the next unconsumed position of the scoped list
   is required the call fails and nothing is posted; a command with one
   required top-level option fails on no token and, the option declaring
   no choices, emits for one token exactly one entry with the option's
   type code and name (and the token as value for a STRING option). *)
C3_RequiredEnforcement ==
    Slash /\ ChatInput /\ StringTokens =>
        /\ NextRequired => posted = <<>> /\ (pc = "done" => Failed)
        /\ OneRequired /\ tokens.items = <<>> /\ pc = "done" => result = "Error"
        /\ OneRequired /\ Len(tokens.items) = 1 /\ ~HasChoices(command.options[1]) =>
             /\ pc = "done" => result \in {"true", "rejected"}
             /\ posted # <<>> =>
                  /\ Len(Emitted) = 1
                  /\ Emitted[1].type = ApplicationCommandOptionTypes(command.options[1].type)
                  /\ Emitted[1].name = command.options[1].name
                  /\ command.options[1].type = Str("STRING") =>
                        Emitted[1].value = tokens.items[1]

C3_Witness ==
    /\ Slash /\ Routed /\ StringTokens
    /\ Len(Remaining) = 1
    /\ NextRequired
    /\ Failed
    /\ optionFormat # <<>>

\* the list the walk ran against
WalkedOptions ==
    IF ~subCommandCheck THEN <<command.options>>
    ELSE IF subCommand = <<>> THEN <<>>
    ELSE Get(subCommand[1], "options")

(* C4: a successful sendSlashCommand has emitted an entry for every
   required option of the scoped list. *)
C4_RequiredPresent ==
    Slash /\ Succeeded /\ WalkedOptions # <<>> =>
        \A k \in 1..Len(WalkedOptions[1]) :
            Get(WalkedOptions[1][k], "required") = <<TRUE>> =>
                \E m \in 1..Len(optionFormat) :
                    optionFormat[m].name = WalkedOptions[1][k].name

\* the token at 0-based position j of the walk and the option paired with it
WalkedToken(j) == options.items[j + 1]

\* a choice of the option at position j matches the token by name or value
Matches(opt, value) ==
    \E k \in 1..Len(opt.choices) :
        LooseEq(Str(opt.choices[k].name), value) \/ LooseEq(opt.choices[k].value, value)

(* C5: a call that ends in an error or as not applicable has posted
   nothing; a successful one has posted exactly one request, and a request
   is posted only when the walk is over, every walked token is a string,
   every entry's choice check has passed and no required value is missing. *)
C5_ValidationPrecedesNetwork ==
    /\ Failed \/ NotApplicable => posted = <<>>
    /\ Succeeded => Len(posted) = 1
    /\ Len(posted) <= 1
    /\ posted # <<>> => pc \in {"await", "done"} /\ result \in {"none", "true", "rejected"}
    /\ posted # <<>> /\ Slash =>
         /\ ChatInput /\ options.array
         /\ i = Len(options.items)
         /\ \A k \in 1..Len(options.items) : options.items[k].t = "string"
         /\ WalkedOptions # <<>> =>
              /\ \A m \in 1..Len(optionFormat) :
                    LET p == PositionOf(optionFormat[m].name, WalkedOptions[1])
                    IN  HasChoices(WalkedOptions[1][p]) =>
                            Matches(WalkedOptions[1][p], WalkedToken(p - 1))
              /\ i < Len(WalkedOptions[1]) =>
                    Get(WalkedOptions[1][i + 1], "required") # <<TRUE>>
    /\ posted # <<>> /\ Context => ~ChatInput

C5_Witness ==
    /\ Slash /\ Succeeded
    /\ Len(posted) = 1
    /\ Len(optionFormat) = 2
    /\ \E m \in 1..2 : HasChoices(command.options[m])

\* The loop body has just run for the token at position j: it threw there,
\* or it went on to position j + 1.
JustWalked(j) ==
    /\ Slash
    /\ \/ pc = "loop" /\ j = i - 1
       \/ /\ Failed /\ j = i
          /\ pc = "done" /\ i < Len(options.items)
          /\ ~(subCommandCheck /\ subCommand = <<>>)
    /\ j >= 0

\* the first choice picked out by `hits`
FirstOf(choices, hits) == choices[CHOOSE k \in hits : \A h \in hits : k <= h]

(* C6: a token paired with an option that declares choices selects the
   choice whose name equals it, else the choice whose value equals it, and
   otherwise the call fails and posts nothing. *)
C6_ChoicePrecedence ==
    \A j \in 0..MaxTokens :
        JustWalked(j) /\ WalkedToken(j).t = "string"
          /\ WalkedOptions # <<>> /\ j < Len(WalkedOptions[1])
          /\ HasChoices(WalkedOptions[1][j + 1]) =>
            LET cs == WalkedOptions[1][j + 1].choices
                byName == {k \in 1..Len(cs) : cs[k].name = WalkedToken(j).s}
                byValue == {k \in 1..Len(cs) : LooseEq(cs[k].value, WalkedToken(j))}
            IN  IF byName # {} THEN choice = <<FirstOf(cs, byName)>>
                ELSE IF byValue # {} THEN choice = <<FirstOf(cs, byValue)>>
                ELSE Failed /\ posted = <<>>

(* C7: when a token resolves to a choice, the entry pushed for it carries
   exactly the choice's declared value. *)
C7_ChoiceValueVerbatim ==
    Slash /\ pc = "loop" /\ choice # <<>> =>
        optionFormat[Len(optionFormat)].value = choice[1].value

-----------------------------------------------------------------------------
(* What the claims about the equality engine speak of *)

Compared == eq.pc = "done"

\* the two lists hold the same options, in any order
Permuted(a, b) ==
    /\ Len(a) = Len(b)
    /\ \A k \in 1..Len(a) : \E n \in 1..Len(b) : a[k] = b[n]
    /\ \A n \in 1..Len(b) : \E k \in 1..Len(a) : a[k] = b[n]

\* the candidate is an instance that differs from `this` at most in the
\* order of its top-level options
PermutedOperands ==
    /\ "applicationId" \in DOMAIN eq.command
    /\ [eq.command EXCEPT !.options = eq.this.options] = eq.this
    /\ Permuted(eq.this.options, eq.command.options)
    /\ UniqueNames(eq.this.options)

(* C8: equals is reflexive: a command compared with itself, in either
   ordering mode, is equal, also when its default-enabled flag, its
   description or its version is absent. *)
C8_Reflexive ==
    Compared /\ eq.command = eq.this => eq.result

(* C9: a command and a candidate that differs from it only by a
   permutation of its top-level options (names unique) are equal without
   order enforcement, and unequal with it when the permutation moves an
   option. *)
C9_OrderInsensitive ==
    Compared /\ PermutedOperands =>
        IF eq.enforceOptionOrder
        THEN eq.command.options # eq.this.options => ~eq.result
        ELSE eq.result

-----------------------------------------------------------------------------
(* What the claims about the transcoder speak of *)

\* w with an absent `required` filled in with its default, at every depth
RECURSIVE Normalise(_)
Normalise(w) ==
    [k \in DOMAIN w \ {"options"} |-> w[k]]
    @@ (IF IsSubType(ApplicationCommandOptionTypes(w.type)) \/ "required" \in DOMAIN w
        THEN <<>>
        ELSE [required |-> FALSE])
    @@ (IF "options" \in DOMAIN w
        THEN [options |-> [k \in 1..Len(w.options) |-> Normalise(w.options[k])]]
        ELSE <<>>)

(* C10: toWire(toModel(w)) is w field for field, once an absent required
   is filled in with its default; fields absent from w are absent from the
   result. *)
C10_RoundTrip ==
    xf.pc = "wire" => xf.back = Normalise(xf.w)

\* a subcommand whose nested option has a channel filter and no `required`
C10_Witness ==
    /\ xf.pc = "wire"
    /\ xf.w.type = Num(1)
    /\ "options" \in DOMAIN xf.w
    /\ \E k \in 1..Len(xf.w.options) :
            /\ "channel_types" \in DOMAIN xf.w.options[k]
            /\ "required" \notin DOMAIN xf.w.options[k]
            /\ xf.m.options[k].channelTypes = <<Str("GUILD_TEXT"), Str("GUILD_VOICE")>>
            /\ xf.back.options[k].channel_types = xf.w.options[k].channel_types
            /\ xf.back.options[k].required = FALSE

-----------------------------------------------------------------------------
\* the default-enabled flag of a command, under either spelling
FlagOf(c) == Coalesce(Get(c, "defaultPermission"), Get(c, "default_permission"))

\* c without its default-enabled flag, as an instance
Flagless(c) ==
    LET inst == IF "applicationId" \in DOMAIN c THEN c ELSE ApplicationCommand(c)
    IN  [k \in DOMAIN inst \ {"defaultPermission"} |-> inst[k]]

\* the operands agree on everything but, possibly, the flag
SameButFlag == Flagless(eq.command) = Flagless(eq.this)

(* C11: an absent default-enabled flag counts as true on either side: with
   everything else matching, a command without the flag equals a candidate
   whose flag is true or absent, and a command whose flag is true equals a
   candidate without the flag, whichever spelling the candidate uses. *)
C11_AbsentFlagIsTrue ==
    Compared /\ SameButFlag
      /\ FlagOf(eq.this) \in {<<>>, <<TRUE>>}
      /\ FlagOf(eq.command) \in {<<>>, <<TRUE>>}
      /\ (FlagOf(eq.this) = <<>> \/ FlagOf(eq.command) = <<>>)
        => eq.result

-----------------------------------------------------------------------------
(* C12: the two methods only read their inputs: no step of a call changes
   the command (its options and choices) or the caller's token array, so a
   second call with the same objects sees what the first one saw. *)
C12_InputsUnchanged ==
    [][command' = command /\ options' = options]_vars

-----------------------------------------------------------------------------
\* what call k does when it is the only call made on what the caller built
Alone(k) == Run(co.calls[k], message, co.given[co.calls[k].array])

\* call k has done, so far, what it does alone
AsAlone(k) ==
    LET call == co.calls[k]
    IN  /\ call.posted = Alone(k).posted
        /\ call.pc = "await" => Alone(k).result = "await"
        /\ call.pc = "done" =>
              IF Alone(k).result = "await"
              THEN call.result \in {"true", "rejected"}
              ELSE call.result = Alone(k).result

(* C13: calls that overlap do not interfere: whatever the order in which
   they run and their requests settle, each call ends as it does alone and
   posts what it posts alone, and no two calls build their option list in
   the same array. *)
C13_NoInterference ==
    co.pc = "on" =>
        /\ \A k \in 1..MaxCalls : co.calls[k].pc # "idle" => AsAlone(k)
        /\ \A j, k \in 1..MaxCalls :
              j # k /\ co.calls[j].list # 0 /\ co.calls[k].list # 0 =>
                co.calls[j].list # co.calls[k].list

-----------------------------------------------------------------------------
(* C14: sendSlashCommand on a command that is not CHAT_INPUT returns false,
   throws nothing and posts nothing, whatever the options argument;
   sendContextMenu on a CHAT_INPUT command does the same. *)
C14_PathGating ==
    /\ Slash /\ ~ChatInput => posted = <<>> /\ (pc = "done" => result = "false")
    /\ Context /\ ChatInput => posted = <<>> /\ (pc = "done" => result = "false")

(* C14, amended: the same for every options argument that is an array,
   whatever its elements; an argument that is no array ends in a TypeError,
   which is raised before the command's type is looked at, and nothing is
   posted. *)
C14_PathGatingOfArrays ==
    /\ Slash /\ ~ChatInput /\ tokens.array =>
          posted = <<>> /\ (pc = "done" => result = "false")
    /\ Slash /\ ~ChatInput /\ ~tokens.array =>
          posted = <<>> /\ (pc = "done" => result = "TypeError")
    /\ Context /\ ChatInput => posted = <<>> /\ (pc = "done" => result = "false")

\* a USER command called with an array that holds a number
C14_Witness ==
    /\ Slash /\ ~ChatInput
    /\ tokens.array
    /\ \E k \in 1..Len(tokens.items) : tokens.items[k].t = "number"
    /\ NotApplicable

-----------------------------------------------------------------------------
\* the integer code of the command's type
KindCode ==
    CASE command.type = Str("CHAT_INPUT") -> Num(1)
      [] command.type = Str("USER") -> Num(2)
      [] command.type = Str("MESSAGE") -> Num(3)
      [] OTHER -> Undef

(* C15: every posted body has type 2, the command's application id, the
   message's guild and channel ids, the client's session id and a data
   block with the command's version, id, name and type code; the data
   block has an option list and no target_id when sendSlashCommand posted
   it, and a target_id and no option list when sendContextMenu did. *)
C15_PayloadShape ==
    \A k \in 1..Len(posted) :
        LET body == posted[k]
        IN  /\ body.type = 2
            /\ body.application_id = command.applicationId
            /\ body.guild_id = message.guildId
            /\ body.channel_id = message.channelId
            /\ body.session_id = "session"
            /\ body.data.version = Get(command, "version")
            /\ body.data.id = command.id
            /\ body.data.name = command.name
            /\ body.data.type = KindCode
            /\ Slash => "options" \in DOMAIN body.data /\ "target_id" \notin DOMAIN body.data
            /\ Context => "target_id" \in DOMAIN body.data /\ "options" \notin DOMAIN body.data

\* a MESSAGE command has posted its body
C15_Witness ==
    /\ Context /\ Succeeded
    /\ command.type = Str("MESSAGE")
    /\ posted[1].data.target_id = message.id

-----------------------------------------------------------------------------
\* the caller's array holds something that is not a string
NonStringToken ==
    /\ tokens.array
    /\ \E k \in 1..Len(tokens.items) : tokens.items[k].t # "string"

(* C16: sendSlashCommand on a CHAT_INPUT command fails with an error and
   posts nothing when any element of the options array is not a string,
   at whatever position: the first token that selects a subcommand and
   tokens beyond the declared options included. *)
C16_TokensAreStrings ==
    Slash /\ ChatInput /\ NonStringToken =>
        posted = <<>> /\ (pc = "done" => Failed)

-----------------------------------------------------------------------------
\* the type code is that of a subcommand or of a subcommand group
RoutingCode(code) == code \in {Num(1), Num(2)}

\* the entries of an emitted option list are leaves that carry a value
LeafEntries(entries) ==
    \A k \in 1..Len(entries) :
        /\ "value" \in DOMAIN entries[k]
        /\ ~RoutingCode(entries[k].type)

(* C17: in every body sendSlashCommand posts, an entry of subcommand or
   subcommand-group type is the single wrapper node, which holds a nested
   list and no value, and every entry that carries a value is of a leaf
   type, also when the first token selects a subcommand group. *)
C17_RoutingNodesCarryNoValue ==
    Slash /\ posted # <<>> =>
        IF \E k \in 1..Len(Emitted) : RoutingCode(Emitted[k].type)
        THEN /\ Len(Emitted) = 1
             /\ "value" \notin DOMAIN Emitted[1]
             /\ LeafEntries(Emitted[1].options)
        ELSE LeafEntries(Emitted)

-----------------------------------------------------------------------------
\* channel types as names (the model's form), resp. as codes (the wire's)
AsNames(types) ==
    [k \in 1..Len(types) |-> IF types[k].t = "number" THEN ChannelTypes(types[k]) ELSE types[k]]

AsCodes(types) ==
    [k \in 1..Len(types) |-> IF types[k].t = "string" THEN ChannelTypes(types[k]) ELSE types[k]]

\* the value given for a field, the model spelling first
Given(option, modelKey, wireKey) == Coalesce(Get(option, modelKey), Get(option, wireKey))

\* `out` has the field under `key` with the value v (none when v is <<>>),
\* and has nothing under `otherKey`
OnlyUnder(out, key, otherKey, v) ==
    Get(out, key) = v /\ otherKey \notin DOMAIN out

(* C18: in both directions transformOption takes the channel filter, the
   minimum and the maximum from either spelling, from the model's when both
   are given, and returns each under the spelling of the direction only:
   the model's when received, the wire's otherwise. *)
C18_FieldNameDuality ==
    xf.pc = "returned" =>
        LET channels == Given(xf.option, "channelTypes", "channel_types")
            min == Given(xf.option, "minValue", "min_value")
            max == Given(xf.option, "maxValue", "max_value")
        IN  IF xf.received
            THEN /\ OnlyUnder(xf.out, "channelTypes", "channel_types",
                              IF channels = <<>> THEN <<>> ELSE <<AsNames(channels[1])>>)
                 /\ OnlyUnder(xf.out, "minValue", "min_value", min)
                 /\ OnlyUnder(xf.out, "maxValue", "max_value", max)
            ELSE /\ OnlyUnder(xf.out, "channel_types", "channelTypes",
                              IF channels = <<>> THEN <<>> ELSE <<AsCodes(channels[1])>>)
                 /\ OnlyUnder(xf.out, "min_value", "minValue", min)
                 /\ OnlyUnder(xf.out, "max_value", "maxValue", max)

-----------------------------------------------------------------------------
\* the scoped option list, empty when the selected subcommand declares none
ScopedList == IF Scoped = <<>> THEN <<>> ELSE Scoped[1]

\* the positions that have both a token and an option
Paired ==
    1..(IF Len(Remaining) < Len(ScopedList) THEN Len(Remaining) ELSE Len(ScopedList))

\* the entries built by the walk of a posted request
Walked == IF Routed THEN Emitted[1].options ELSE Emitted

\* a first token is there to select the subcommand when one is needed
Selects == Flat \/ (Routed /\ NamedByFirst # {})

(* C19: the token at position i of the tokens left after the selection is
   paired with the option at index i of the scoped list; a posted request
   holds one entry for each paired position, in order, with that option's
   type code and name; tokens at positions without an option, which is
   every position when the selected subcommand declares no options, add no
   entry and raise no error. *)
C19_LockStepWalk ==
    Slash /\ StringTokens /\ Selects =>
        /\ posted # <<>> =>
             /\ Len(Walked) = Cardinality(Paired)
             /\ \A p \in Paired :
                   /\ Walked[p].type = ApplicationCommandOptionTypes(ScopedList[p].type)
                   /\ Walked[p].name = ScopedList[p].name
        /\ pc = "done" /\ ~NextRequired
             /\ (\A p \in Paired :
                    HasChoices(ScopedList[p]) => Matches(ScopedList[p], Remaining[p]))
             => result \in {"true", "rejected"}

-----------------------------------------------------------------------------
\* what a token becomes for an option of the given type that has no choices
Coerced(type, token) ==
    CASE type = Str("INTEGER") -> IF token.s \in {"", "0"} THEN Num(0) ELSE NaN
      [] type = Str("BOOLEAN") -> Bool(token.s # "")
      [] OTHER -> token

(* C20: the entry emitted for a token paired with an option that declares
   no choices carries the number the token parses to for an INTEGER
   option, whether the token is non-empty for a BOOLEAN option, and the
   token itself for every other type, NUMBER included. *)
C20_CoercionWithoutChoices ==
    Slash /\ StringTokens /\ Selects /\ posted # <<>> =>
        \A m \in 1..Len(Walked) :
            LET p == PositionOf(Walked[m].name, ScopedList)
            IN  ~HasChoices(ScopedList[p]) =>
                    Walked[m].value = Coerced(ScopedList[p].type, Remaining[p])

\* "0" is true for a BOOLEAN option and stays a string for a NUMBER option
C20_Witness ==
    /\ Slash /\ StringTokens /\ Routed /\ NamedByFirst # {} /\ Succeeded
    /\ Len(Walked) = 2
    /\ \E m, n \in 1..2 :
          /\ ScopedList[m].type = Str("BOOLEAN") /\ Walked[m].value = Bool(TRUE)
          /\ ScopedList[n].type = Str("NUMBER") /\ Walked[n].value = Str("0")
          /\ Remaining[m] = Str("0")

-----------------------------------------------------------------------------
\* the options argument is no array, or an array that holds a non-string
Malformed == ~tokens.array \/ NonStringToken

\* nothing that depends on the command's options has been done
NothingWalked ==
    /\ options = tokens
    /\ ~subCommandCheck
    /\ subCommand = <<>>
    /\ i = 0
    /\ optionFormat = <<>>
    /\ choice = <<>>
    /\ posted = <<>>

(* C21: an options argument that is no array, or an array holding a
   non-string, is rejected before the walk: when the call has ended it
   has failed with a TypeError and with no other error, and it has neither
   selected a subcommand, removed the first token, looked up a choice nor
   built an entry. *)
C21_RejectedBeforeWalk ==
    Slash /\ ChatInput /\ Malformed /\ pc \in {"await", "done"} =>
        /\ Failed
        /\ result = "TypeError"
        /\ NothingWalked

-----------------------------------------------------------------------------
(* One call of _optionEquals on two channel options that differ in their
   channel type filters only *)

MaxChannels == 2

ChannelLists == SeqsUpTo({EqChannels[k] : k \in 1..Len(EqChannels)}, MaxChannels)

\* `existing` is an option of an instance; the candidate is such an option
\* too, or wire data with the channel types as integers
InitOpt ==
    /\ Idle
    /\ xf = NoRun
    /\ co = NoRun
    /\ user = NoRun
    /\ \E have \in ChannelLists, given \in ChannelLists,
          wire \in BOOLEAN, enforceOptionOrder \in BOOLEAN :
            eq = [pc |-> "option",
                  existing |-> transformOption(EqChannelOption(have), TRUE),
                  option |-> IF wire
                             THEN EqChannelOption(given)
                             ELSE transformOption(EqChannelOption(given), TRUE),
                  enforceOptionOrder |-> enforceOptionOrder]

OptionEquals ==
    /\ eq.pc = "option"
    /\ eq' = [pc |-> "compared",
              existing |-> eq.existing,
              option |-> eq.option,
              enforceOptionOrder |-> eq.enforceOptionOrder,
              result |-> _optionEquals(eq.existing, eq.option, eq.enforceOptionOrder)]
    /\ UNCHANGED <<encVars, xf, co, user>>

NextOpt == OptionEquals

SpecOpt == InitOpt /\ [][NextOpt]_vars

\* the channel type filter of an option as a list of names
FilterList(option) ==
    LET given == Coalesce(Get(option, "channelTypes"), Get(option, "channel_types"))[1]
    IN  [k \in 1..Len(given) |->
            IF given[k].t = "number" THEN ChannelTypes(given[k]) ELSE given[k]]

\* the channel types an option lets through
Filter(option) == {FilterList(option)[k] : k \in 1..Len(FilterList(option))}

OptionsCompared == eq.pc = "compared"

(* C22: two options that agree in every other field are equal whenever
   every channel type of the existing option is in the candidate's filter,
   whatever the order and whatever else the candidate's filter holds. *)
C22_CandidateMayBeSuperset ==
    OptionsCompared /\ Filter(eq.existing) \subseteq Filter(eq.option) => eq.result

(* C22, amended: two options that agree in every other field are equal
   exactly when their filters have the same length and every channel type
   of the existing option is in the candidate's filter, whatever the order;
   a candidate whose filter is longer is unequal. *)
C22_SameLengthAndIncluded ==
    OptionsCompared =>
        (eq.result <=>
            /\ Len(FilterList(eq.existing)) = Len(FilterList(eq.option))
            /\ Filter(eq.existing) \subseteq Filter(eq.option))

\* equal although the candidate lets a channel type through that the
\* existing option does not
C22_Witness ==
    /\ OptionsCompared
    /\ eq.result
    /\ ~(Filter(eq.option) \subseteq Filter(eq.existing))

-----------------------------------------------------------------------------
\* the candidate is wire data and `this` is the instance built from it
BuiltFromCandidate ==
    /\ "application_id" \in DOMAIN eq.command
    /\ eq.this = ApplicationCommand(eq.command)

(* C23: the instance built from a wire command equals that wire command,
   with and without order enforcement, whether or not the wire command has
   a default_permission and whatever options it has. *)
C23_NoSchemaDrift ==
    Compared /\ BuiltFromCandidate => eq.result

-----------------------------------------------------------------------------
\* the first token names a subcommand that declares a list of leaf options
LeafScoped ==
    /\ Slash
    /\ Routed
    /\ StringTokens
    /\ NamedByFirst # {}
    /\ Selected.type = Str("SUB_COMMAND")
    /\ "options" \in DOMAIN Selected

\* the call on a command that has the subcommand's nested options as its
\* top-level options, with the tokens left after the selection
AtTopLevel ==
    SlashRun([command EXCEPT !.options = Selected.options], message, Array(Remaining))

(* C24: the walk under a subcommand and the walk at the top level build
   the same entries: a call that selects a subcommand with the leaf options
   L and goes on with the tokens T fails exactly when the call with T on a
   command with the top-level options L fails, and otherwise the entries
   nested under the subcommand are the option list of that call, empty
   tokens included. *)
C24_SameEntriesAtBothLevels ==
    LeafScoped /\ (pc = "await" \/ Failed) =>
        IF pc = "await"
        THEN /\ AtTopLevel.result = "await"
             /\ AtTopLevel.posted[1].data.options = Emitted[1].options
        ELSE AtTopLevel.result \in {"TypeError", "Error"}

-----------------------------------------------------------------------------
(* Two calls of optionsEqual on the same two lists, the first with order
   enforcement and the second without *)

\* two choices of one name
EqSameNameChoices == <<Choice("one", Str("a")), Choice("one", Num(0))>>

\* options in wire form; several have the same name
OrdOptionPool ==
    {EqChoiceOption(EqChoices), EqChoiceOption(Reverse(EqChoices)),
     EqChoiceOption(EqSameNameChoices),
     EqSubOption(<<EqChoiceOption(EqChoices), EqRangeOption>>),
     EqSubOption(<<EqRangeOption, EqChoiceOption(EqChoices)>>)}

\* data.options.map(o => transformOption(o, true)), line 89
Received(list) == [k \in 1..Len(list) |-> transformOption(list[k], TRUE)]

\* `existing` are options of an instance; the candidate list is such a list
\* too, or wire data
InitOrd ==
    /\ Idle
    /\ xf = NoRun
    /\ co = NoRun
    /\ user = NoRun
    /\ \E a \in SeqsUpTo(OrdOptionPool, MaxEqOpts),
          b \in SeqsUpTo(OrdOptionPool, MaxEqOpts), wire \in BOOLEAN :
            eq = [pc |-> "lists",
                  existing |-> Received(a),
                  options |-> IF wire THEN b ELSE Received(b)]

OptionsEqualStrict ==
    /\ eq.pc = "lists"
    /\ eq' = [pc |-> "strict",
              existing |-> eq.existing,
              options |-> eq.options,
              strict |-> optionsEqual(eq.existing, eq.options, TRUE)]
    /\ UNCHANGED <<encVars, xf, co, user>>

OptionsEqualLoose ==
    /\ eq.pc = "strict"
    /\ eq' = [pc |-> "both",
              existing |-> eq.existing,
              options |-> eq.options,
              strict |-> eq.strict,
              loose |-> optionsEqual(eq.existing, eq.options, FALSE)]
    /\ UNCHANGED <<encVars, xf, co, user>>

NextOrd == OptionsEqualStrict \/ OptionsEqualLoose

SpecOrd == InitOrd /\ [][NextOrd]_vars

\* no two options of a level and no two choices of an option have one name
RECURSIVE UniqueAtEveryLevel(_)
UniqueAtEveryLevel(list) ==
    /\ UniqueNames(list)
    /\ \A k \in 1..Len(list) :
        /\ "choices" \in DOMAIN list[k] => UniqueNames(list[k].choices)
        /\ "options" \in DOMAIN list[k] => UniqueAtEveryLevel(list[k].options)

BothCompared == eq.pc = "both"

(* C25: two option lists that are equal with order enforcement are equal
   without it, when no two options of a level and no two choices of an
   option have the same name, nested lists included. *)
C25_StrictImpliesLoose ==
    (/\ BothCompared
     /\ UniqueAtEveryLevel(eq.existing)
     /\ UniqueAtEveryLevel(eq.options)
     /\ eq.strict)
        => eq.loose

\* two lists with a subcommand with nested options, the candidate wire data,
\* are equal with order enforcement
C25_Witness ==
    /\ BothCompared
    /\ UniqueAtEveryLevel(eq.existing)
    /\ UniqueAtEveryLevel(eq.options)
    /\ eq.strict
    /\ Len(eq.existing) = 2
    /\ \E k \in 1..2 :
        /\ "options" \in DOMAIN eq.existing[k]
        /\ Len(eq.existing[k].options) = 2
        /\ eq.options[k].type = Num(1)

-----------------------------------------------------------------------------
(* ClientUser: edit and the operations that ask for a password, against an
   account that takes a request carrying its current password *)

Passwords == {"p1", "p2"}

\* a password argument: left out, empty, or a password
PasswordArguments == {<<>>} \cup {<<p>> : p \in Passwords \cup {""}}

\* !password
NoPassword(password) == password = <<>> \/ password = <<"">>

\* !password && !this.client.password
PasswordRequired(client, password) == NoPassword(password) /\ NoPassword(client.password)

\* this.client.password ? this.client.password : password
PasswordSent(client, password) ==
    IF NoPassword(client.password) THEN password ELSE client.password

NoRequest == [password |-> <<>>, new_password |-> <<>>]

InitUser ==
    /\ Idle
    /\ xf = NoRun
    /\ eq = NoRun
    /\ co = NoRun
    /\ \E account \in Passwords, nitro \in BOOLEAN :
        user = [pc |-> "ready",
                client |-> [password |-> <<>>],
                nitro |-> nitro,
                account |-> account,
                method |-> "none",
                data |-> NoRequest,
                result |-> "none"]

\* the call throws before it sends anything
Throw(name) ==
    user' = [user EXCEPT !.method = name, !.data = NoRequest, !.result = "Error"]

\* the call hands `data` to the api and waits
Send(name, data) ==
    user' = [user EXCEPT !.pc = "await", !.method = name, !.data = data, !.result = "none"]

\* lines 731-738
setUsername ==
    /\ user.pc = "ready"
    /\ \E password \in PasswordArguments :
        IF PasswordRequired(user.client, password)
        THEN Throw("setUsername")
        ELSE Send("setUsername", [password |-> PasswordSent(user.client, password),
                             new_password |-> <<>>])
    /\ UNCHANGED <<encVars, xf, eq, co>>

\* lines 836-843
setEmail ==
    /\ user.pc = "ready"
    /\ \E password \in PasswordArguments :
        IF PasswordRequired(user.client, password)
        THEN Throw("setEmail")
        ELSE Send("setEmail", [password |-> PasswordSent(user.client, password),
                             new_password |-> <<>>])
    /\ UNCHANGED <<encVars, xf, eq, co>>

\* lines 866-874
disableAccount ==
    /\ user.pc = "ready"
    /\ \E password \in PasswordArguments :
        IF PasswordRequired(user.client, password)
        THEN Throw("disableAccount")
        ELSE Send("disableAccount", [password |-> PasswordSent(user.client, password),
                             new_password |-> <<>>])
    /\ UNCHANGED <<encVars, xf, eq, co>>

\* lines 881-889
deleteAccount ==
    /\ user.pc = "ready"
    /\ \E password \in PasswordArguments :
        IF PasswordRequired(user.client, password)
        THEN Throw("deleteAccount")
        ELSE Send("deleteAccount", [password |-> PasswordSent(user.client, password),
                             new_password |-> <<>>])
    /\ UNCHANGED <<encVars, xf, eq, co>>

\* lines 809-817
setDiscriminator ==
    /\ user.pc = "ready"
    /\ \E password \in PasswordArguments :
        IF ~user.nitro \/ PasswordRequired(user.client, password)
        THEN Throw("setDiscriminator")
        ELSE Send("setDiscriminator", [password |-> PasswordSent(user.client, password),
                                       new_password |-> <<>>])
    /\ UNCHANGED <<encVars, xf, eq, co>>

\* lines 851-859
setPassword ==
    /\ user.pc = "ready"
    /\ \E oldPassword \in PasswordArguments, newPassword \in PasswordArguments :
        IF PasswordRequired(user.client, oldPassword) \/ NoPassword(newPassword)
        THEN Throw("setPassword")
        ELSE Send("setPassword", [password |-> PasswordSent(user.client, oldPassword),
                                  new_password |-> newPassword])
    /\ UNCHANGED <<encVars, xf, eq, co>>

\* lines 824-828: an edit whose data has no password
setAboutMe ==
    /\ user.pc = "ready"
    /\ Send("setAboutMe", NoRequest)
    /\ UNCHANGED <<encVars, xf, eq, co>>

EditMethods == {"setUsername", "setEmail", "setDiscriminator", "setPassword", "setAboutMe"}

\* the account takes a request that carries its password, or changes nothing
\* that is guarded by it
Accepted == user.method = "setAboutMe" \/ user.data.password = <<user.account>>

\* lines 709-715: the request of edit is answered; the account has the new
\* password, if one was sent, and edit stores the password of its data
EditResolve ==
    /\ user.pc = "await"
    /\ user.method \in EditMethods
    /\ Accepted
    /\ user' = [user EXCEPT
                  !.pc = "ready",
                  !.result = "updated",
                  !.account = IF user.data.new_password = <<>>
                              THEN user.account
                              ELSE user.data.new_password[1],
                  !.client = [password |-> IF NoPassword(user.data.password)
                                           THEN user.client.password
                                           ELSE user.data.password]]
    /\ UNCHANGED <<encVars, xf, eq, co>>

\* the account is disabled or deleted: no call follows
AccountResolve ==
    /\ user.pc = "await"
    /\ user.method \notin EditMethods
    /\ Accepted
    /\ user' = [user EXCEPT !.pc = "closed", !.result = "resolved"]
    /\ UNCHANGED <<encVars, xf, eq, co>>

\* the request is turned down: the await throws and nothing is stored
Reject ==
    /\ user.pc = "await"
    /\ ~Accepted
    /\ user' = [user EXCEPT !.pc = "ready", !.result = "rejected"]
    /\ UNCHANGED <<encVars, xf, eq, co>>

NextUser ==
    \/ setUsername
    \/ setEmail
    \/ setDiscriminator
    \/ setPassword
    \/ setAboutMe
    \/ disableAccount
    \/ deleteAccount
    \/ EditResolve
    \/ AccountResolve
    \/ Reject

SpecUser == InitUser /\ [][NextUser]_vars

\* a password is stored on the client
Stored == ~NoPassword(user.client.password)

(* C26: whatever operations were called, a password stored on the client is
   the account's current password, after a setPassword that went through
   too, and a request made while a password is stored carries the account's
   current password. *)
C26_StoredPasswordIsCurrent ==
    Stored =>
        /\ user.client.password = <<user.account>>
        /\ user.pc = "await" /\ user.method # "setAboutMe"
            => user.data.password = <<user.account>>

====
